---- MODULE Spec2Model ----
(***************************************************************************)
(* Orchestration kernel of smart_customer_service: the goal tracker        *)
(* (core/goal_manager.py), the exception recovery engine                   *)
(* (core/exception_handler.py) and the communication hub                   *)
(* (core/communication_hub.py, agents/base_agent.py).                      *)
(*                                                                         *)
(* The three components share no state, so each has its own next-state     *)
(* relation and specification over the common variables; the variables of  *)
(* the other components keep their constructed values.                     *)
(*                                                                         *)
(* Conventions.  Optional[T] is a set with at most one element ({} is      *)
(* None).  A datetime is a number of seconds, read from the clock `now`.   *)
(* A float in [0,1] is an exact fraction <<num, den>> with den > 0.        *)
(* `ret` holds what the call that has just returned gave back.             *)
(***************************************************************************)
EXTENDS Integers, Sequences, FiniteSets, TLC

VARIABLES
    now,            \* datetime.now(), in seconds
    goals,          \* GoalManager.goals: id -> Goal
    active_goals,   \* GoalManager.active_goals: list of ids
    everCompleted,  \* history: ids whose current entry was set COMPLETED
    recovery_strategies,  \* ExceptionHandler.recovery_strategies
    overrides,      \* history: the strategy the owner last assigned to a kind
    remembered,     \* history: an earlier handle_exception call, {} when none is kept
    exc_info,       \* the ExceptionInfo the caller got from handle_exception
    ars,            \* the apply_recovery_strategy call: position and locals
    agents,         \* CommunicationHub.agents: <<name, agent>> in insertion order
    message_queue,  \* CommunicationHub.message_queue
    history,        \* BaseAgent.history of each agent object that has one
    message_handlers,  \* CommunicationHub.message_handlers, in insertion order
    drain,          \* each process_message_queue invocation: where it stands
    ret             \* result of the call that has just returned

goalVars == <<now, goals, active_goals, everCompleted>>
excVars == <<recovery_strategies, overrides, remembered, exc_info, ars>>
hubVars == <<agents, message_queue, history, message_handlers, drain>>
vars == <<now, goals, active_goals, everCompleted, recovery_strategies, overrides,
          remembered, exc_info, ars, agents, message_queue, history,
          message_handlers, drain, ret>>

(***************************************************************************)
(* Bounds and input sets                                                   *)
(***************************************************************************)
MaxActive == 2
MaxRetriesArg == 3
MaxOverrides == 1
MaxQueue == 3

\* the largest limit handed to get_message_history
MaxLimit == 2

\* the largest number of subscriptions
MaxHandlers == 3

\* the largest number of messages sent in a run that has a drain loop
MaxPending == 2

\* the largest number of messages sent in a run that has two drain loops
MaxInterleaved == 4

GoalIds == {"g1", "g2"}

\* 1 hour, in seconds: the slow-progress threshold of monitor_goals
Hour == 3600

\* instants at which the clock is read
Times == {0, 1, Hour + 1, Hour + 2}

\* deadlines a caller passes to create_goal ({} is "no deadline")
Deadlines == {{}, {1}, {10 * Hour + 20}}

\* the deadlines tried for each id: only the first goal gets one
DeadlinesOf(goal_id) == IF goal_id = "g1" THEN Deadlines ELSE {{}}

(***************************************************************************)
(* Goal tracker                                                            *)
(***************************************************************************)
GoalStatus == {"pending", "in_progress", "completed", "failed", "cancelled"}

TerminalStatus == {"completed", "failed", "cancelled"}

\* Goal(id=goal_id, deadline=deadline): the dataclass defaults
NewGoal(goal_id, deadline, t) ==
    [id |-> goal_id, status |-> "pending", created_at |-> t,
     completed_at |-> {}, deadline |-> deadline]

\* list.remove(x): drops the first occurrence only
RECURSIVE RemoveFirst(_, _)
RemoveFirst(s, x) ==
    IF s = <<>> THEN <<>>
    ELSE IF Head(s) = x THEN Tail(s)
    ELSE <<Head(s)>> \o RemoveFirst(Tail(s), x)

InList(s, x) == \E i \in 1..Len(s) : s[i] = x

\* create_goal: the active list after the insertion
ActiveAfterCreate(active, goal) ==
    IF goal.status = "pending" THEN Append(active, goal.id) ELSE active

\* variant: an id already in the table keeps its entry
GoalsAfterCreateKeeping(gs, goal) ==
    [g \in DOMAIN gs \cup {goal.id} |-> IF g \in DOMAIN gs THEN gs[g] ELSE goal]

\* create_goal: self.goals[goal_id] = goal
GoalsAfterCreate(gs, goal) ==
    [g \in DOMAIN gs \cup {goal.id} |-> IF g = goal.id THEN goal ELSE gs[g]]

\* variant: a status other than COMPLETED resets completed_at
UpdatedGoalClearing(goal, status, t) ==
    [goal EXCEPT !.status = status,
                 !.completed_at = IF status = "completed" THEN {t} ELSE {}]

\* update_goal_status: the goal object after the assignment
UpdatedGoal(goal, status, t) ==
    [goal EXCEPT !.status = status,
                 !.completed_at = IF status = "completed" THEN {t} ELSE @]

\* update_goal_status: the active list after the update
ActiveAfterUpdate(active, goal_id, status) ==
    IF status \in TerminalStatus
    THEN IF InList(active, goal_id) THEN RemoveFirst(active, goal_id) ELSE active
    ELSE IF ~InList(active, goal_id) /\ status # "pending"
         THEN Append(active, goal_id)
         ELSE active

\* variant: the active list is updated for an id that is not in the table
update_goal_status_indexing_unknown(gs, active, goal_id, status, t) ==
    IF goal_id \in DOMAIN gs
    THEN [goals |-> [gs EXCEPT ![goal_id] = UpdatedGoal(@, status, t)],
          active_goals |-> ActiveAfterUpdate(active, goal_id, status)]
    ELSE [goals |-> gs, active_goals |-> ActiveAfterUpdate(active, goal_id, status)]

\* update_goal_status: the table and the active list after the call
update_goal_status(gs, active, goal_id, status, t) ==
    IF goal_id \in DOMAIN gs
    THEN [goals |-> [gs EXCEPT ![goal_id] = UpdatedGoal(@, status, t)],
          active_goals |-> ActiveAfterUpdate(active, goal_id, status)]
    ELSE [goals |-> gs, active_goals |-> active]

\* variant: a goal expires at its deadline, not after it
is_expired_at_deadline(goal, t) ==
    IF goal.deadline # {} THEN \E d \in goal.deadline : t >= d ELSE FALSE

\* Goal.is_expired
is_expired(goal, t) ==
    IF goal.deadline # {} THEN \E d \in goal.deadline : t > d ELSE FALSE

\* get_active_goals
get_active_goals(gs, active) ==
    LET RECURSIVE Collect(_)
        Collect(s) ==
            IF s = <<>> THEN <<>>
            ELSE IF Head(s) \in DOMAIN gs
                 THEN <<gs[Head(s)]>> \o Collect(Tail(s))
                 ELSE Collect(Tail(s))
    IN Collect(active)

\* variant: the time ratio is not clamped by min(1.0, ...)
get_goal_progress_unclamped(gs, goal_id, t) ==
    IF goal_id \notin DOMAIN gs THEN <<0, 1>>
    ELSE LET goal == gs[goal_id] IN
         IF goal.status = "completed" THEN <<1, 1>>
         ELSE IF goal.status = "failed" \/ goal.status = "cancelled" THEN <<0, 1>>
         ELSE IF goal.deadline # {}
              THEN LET deadline == CHOOSE d \in goal.deadline : TRUE
                       total_duration == deadline - goal.created_at
                       elapsed_duration == t - goal.created_at
                   IN IF total_duration > 0
                      THEN <<elapsed_duration, total_duration>>
                      ELSE <<0, 1>>
              ELSE <<1, 2>>

\* variant: a deadline that is not after the creation counts as reached
get_goal_progress_full_without_span(gs, goal_id, t) ==
    IF goal_id \notin DOMAIN gs THEN <<0, 1>>
    ELSE LET goal == gs[goal_id] IN
         IF goal.status = "completed" THEN <<1, 1>>
         ELSE IF goal.status = "failed" \/ goal.status = "cancelled" THEN <<0, 1>>
         ELSE IF goal.deadline # {}
              THEN LET deadline == CHOOSE d \in goal.deadline : TRUE
                       total_duration == deadline - goal.created_at
                       elapsed_duration == t - goal.created_at
                   IN IF total_duration > 0
                      THEN IF elapsed_duration >= total_duration
                           THEN <<1, 1>>
                           ELSE <<elapsed_duration, total_duration>>
                      ELSE <<1, 1>>
              ELSE <<1, 2>>

\* get_goal_progress, as the fraction <<num, den>>
get_goal_progress(gs, goal_id, t) ==
    IF goal_id \notin DOMAIN gs THEN <<0, 1>>
    ELSE LET goal == gs[goal_id] IN
         IF goal.status = "completed" THEN <<1, 1>>
         ELSE IF goal.status = "failed" \/ goal.status = "cancelled" THEN <<0, 1>>
         ELSE IF goal.deadline # {}
              THEN LET deadline == CHOOSE d \in goal.deadline : TRUE
                       total_duration == deadline - goal.created_at
                       elapsed_duration == t - goal.created_at
                   IN IF total_duration > 0
                      THEN IF elapsed_duration >= total_duration   \* min(1.0, e/t)
                           THEN <<1, 1>>
                           ELSE <<elapsed_duration, total_duration>>
                      ELSE <<0, 1>>
              ELSE <<1, 2>>

\* progress < 0.1
BelowTenth(p) == p[1] * 10 < p[2]

\* variant: slow progress is reported from one hour on, not after it
GoalAlertsFromOneHour(gs, goal_id, t) ==
    LET goal == gs[goal_id]
        expiration ==
            IF is_expired(goal, t) /\ goal.status # "completed"
            THEN <<[goal_id |-> goal.id, type |-> "expiration"]>> ELSE <<>>
        progress == get_goal_progress(gs, goal_id, t)
        slow ==
            IF BelowTenth(progress) /\ t - goal.created_at >= Hour
            THEN <<[goal_id |-> goal.id, type |-> "slow_progress"]>> ELSE <<>>
    IN expiration \o slow

\* monitor_goals: the alerts of one goal of the active list, in order
GoalAlerts(gs, goal_id, t) ==
    LET goal == gs[goal_id]
        expiration ==
            IF is_expired(goal, t) /\ goal.status # "completed"
            THEN <<[goal_id |-> goal.id, type |-> "expiration"]>> ELSE <<>>
        progress == get_goal_progress(gs, goal_id, t)
        slow ==
            IF BelowTenth(progress) /\ t - goal.created_at > Hour
            THEN <<[goal_id |-> goal.id, type |-> "slow_progress"]>> ELSE <<>>
    IN expiration \o slow

\* monitor_goals
monitor_goals(gs, active, t) ==
    LET RECURSIVE Scan(_)
        Scan(s) ==
            IF s = <<>> THEN <<>>
            ELSE GoalAlerts(gs, Head(s), t) \o Scan(Tail(s))
    IN Scan(active)

NoCall == [op |-> "none"]

GoalInit ==
    /\ now = 0
    /\ goals = <<>>
    /\ active_goals = <<>>
    /\ everCompleted = {}

\* time passes between calls
Tick ==
    /\ \E t \in Times : t > now /\ now' = t
    /\ ret' = NoCall
    /\ UNCHANGED <<goals, active_goals, everCompleted>>
    /\ UNCHANGED <<excVars, hubVars>>

CreateGoal(goal_id, deadline) ==
    LET goal == NewGoal(goal_id, deadline, now) IN
    /\ Len(active_goals) < MaxActive
    /\ goals' = GoalsAfterCreate(goals, goal)
    /\ active_goals' = ActiveAfterCreate(active_goals, goal)
    /\ everCompleted' = everCompleted \ {goal_id}
    /\ ret' = [op |-> "create_goal", id |-> goal_id, value |-> goal]
    /\ UNCHANGED <<now, excVars, hubVars>>

UpdateGoalStatus(goal_id, status) ==
    /\ Len(active_goals) < MaxActive \/ InList(active_goals, goal_id)
                                     \/ status \in TerminalStatus \cup {"pending"}
    /\ LET after == update_goal_status(goals, active_goals, goal_id, status, now)
       IN /\ goals' = after.goals
          /\ active_goals' = after.active_goals
    /\ everCompleted' = IF goal_id \in DOMAIN goals /\ status = "completed"
                        THEN everCompleted \cup {goal_id}
                        ELSE everCompleted
    /\ ret' = [op |-> "update_goal_status", id |-> goal_id]
    /\ UNCHANGED <<now, excVars, hubVars>>

GetActiveGoals ==
    /\ ret' = [op |-> "get_active_goals",
               value |-> get_active_goals(goals, active_goals)]
    /\ UNCHANGED <<goalVars, excVars, hubVars>>

GetGoalProgress(goal_id) ==
    /\ ret' = [op |-> "get_goal_progress", id |-> goal_id,
               value |-> get_goal_progress(goals, goal_id, now)]
    /\ UNCHANGED <<goalVars, excVars, hubVars>>

MonitorGoals ==
    /\ ret' = [op |-> "monitor_goals",
               value |-> monitor_goals(goals, active_goals, now)]
    /\ UNCHANGED <<goalVars, excVars, hubVars>>

GoalNext ==
    \/ Tick
    \/ \E g \in GoalIds : \E d \in DeadlinesOf(g) : CreateGoal(g, d)
    \/ \E g \in GoalIds, s \in GoalStatus : UpdateGoalStatus(g, s)
    \/ GetActiveGoals
    \/ \E g \in GoalIds : GetGoalProgress(g)
    \/ MonitorGoals

(***************************************************************************)
(* Exception recovery engine                                               *)
(***************************************************************************)
ExceptionType == {"connection_error", "timeout_error", "validation_error",
                  "business_error", "system_error", "unknown_error"}

RecoveryStrategy == {"retry", "fallback", "escalate", "ignore"}

\* a type name is a sequence of characters
UpperCase == <<"A", "B", "C", "D", "E", "F", "G", "H", "I", "J", "K", "L", "M", "N", "O", "P", "Q", "R", "S", "T", "U", "V", "W", "X", "Y", "Z">>
LowerCase == <<"a", "b", "c", "d", "e", "f", "g", "h", "i", "j", "k", "l", "m", "n", "o", "p", "q", "r", "s", "t", "u", "v", "w", "x", "y", "z">>

\* str.lower() on one character
LowerChar(c) ==
    IF \E i \in 1..Len(UpperCase) : UpperCase[i] = c
    THEN LowerCase[CHOOSE i \in 1..Len(UpperCase) : UpperCase[i] = c]
    ELSE c

\* str.lower()
Lower(name) == [i \in 1..Len(name) |-> LowerChar(name[i])]

\* the `in` operator on strings: sub occurs in str
Contains(sub, str) ==
    \E i \in 1..(Len(str) - Len(sub) + 1) : SubSeq(str, i, i + Len(sub) - 1) = sub

kw_connection == <<"c", "o", "n", "n", "e", "c", "t", "i", "o", "n">>
kw_connect == <<"c", "o", "n", "n", "e", "c", "t">>
kw_timeout == <<"t", "i", "m", "e", "o", "u", "t">>
kw_validation == <<"v", "a", "l", "i", "d", "a", "t", "i", "o", "n">>
kw_value == <<"v", "a", "l", "u", "e">>
kw_business == <<"b", "u", "s", "i", "n", "e", "s", "s">>
kw_system == <<"s", "y", "s", "t", "e", "m">>

\* parts the type names of the failures are made of
NameParts == {<<"C", "o", "n", "n", "e", "c", "t", "i", "o", "n">>,
              <<"C", "o", "n", "n", "e", "c", "t">>,
              <<"T", "i", "m", "e", "O", "u", "t">>,
              <<"V", "a", "l", "u", "e">>,
              <<"V", "A", "L", "I", "D", "A", "T", "I", "O", "N">>,
              <<"B", "u", "s", "i", "n", "e", "s", "s">>,
              <<"S", "y", "s", "t", "e", "m">>,
              <<"K", "e", "y">>,
              <<"E", "r", "r", "o", "r">>}

\* type(exception).__name__ of the failures handed to handle_exception
ExceptionNames == NameParts \cup {a \o b : a, b \in NameParts}

\* str(exception) of the failures
ExceptionMessages == {"m1", "m2"}

Exceptions == [name : ExceptionNames, message : ExceptionMessages]

\* one failure name per kind, for the runs that go on to recover
CommonNames == {a \o <<"E", "r", "r", "o", "r">> : a \in NameParts \ {<<"E", "r", "r", "o", "r">>, <<"C", "o", "n", "n", "e", "c", "t">>, <<"V", "A", "L", "I", "D", "A", "T", "I", "O", "N">>}}

CommonExceptions == [name : CommonNames, message : ExceptionMessages]

\* the failures handled more than once: a retried, an ignored, an unknown kind
RepeatedExceptions ==
    [name : {<<"C", "o", "n", "n", "e", "c", "t", "i", "o", "n", "E", "r", "r", "o", "r">>,
             <<"V", "a", "l", "u", "e", "E", "r", "r", "o", "r">>,
             <<"K", "e", "y", "E", "r", "r", "o", "r">>},
     message : ExceptionMessages]

\* variant: the timeout test comes before the connection test
classify_exception_timeout_first(name) ==
    LET exception_str == Lower(name) IN
    IF Contains(kw_timeout, exception_str) THEN "timeout_error"
    ELSE IF Contains(kw_connection, exception_str)
            \/ Contains(kw_connect, exception_str) THEN "connection_error"
    ELSE IF Contains(kw_validation, exception_str)
            \/ Contains(kw_value, exception_str) THEN "validation_error"
    ELSE IF Contains(kw_business, exception_str) THEN "business_error"
    ELSE IF Contains(kw_system, exception_str) THEN "system_error"
    ELSE "unknown_error"

\* _classify_exception, on the type name of the failure
classify_exception(name) ==
    LET exception_str == Lower(name) IN
    IF Contains(kw_connection, exception_str)
       \/ Contains(kw_connect, exception_str) THEN "connection_error"
    ELSE IF Contains(kw_timeout, exception_str) THEN "timeout_error"
    ELSE IF Contains(kw_validation, exception_str)
            \/ Contains(kw_value, exception_str) THEN "validation_error"
    ELSE IF Contains(kw_business, exception_str) THEN "business_error"
    ELSE IF Contains(kw_system, exception_str) THEN "system_error"
    ELSE "unknown_error"

\* variant: validation errors are retried
DefaultStrategiesRetryingValidation ==
    [k \in ExceptionType \ {"unknown_error"} |->
        CASE k = "connection_error" -> "retry"
          [] k = "timeout_error" -> "retry"
          [] k = "validation_error" -> "retry"
          [] k = "business_error" -> "escalate"
          [] k = "system_error" -> "escalate"]

\* setup_default_handlers: the strategy table after construction
DefaultStrategies ==
    [k \in ExceptionType \ {"unknown_error"} |->
        CASE k = "connection_error" -> "retry"
          [] k = "timeout_error" -> "retry"
          [] k = "validation_error" -> "ignore"
          [] k = "business_error" -> "escalate"
          [] k = "system_error" -> "escalate"]

\* recovery_strategies.get(exception_type, RecoveryStrategy.IGNORE)
StrategyFor(table, exception_type) ==
    IF exception_type \in DOMAIN table THEN table[exception_type] ELSE "ignore"

\* variant: the kind depends on the message as well
ExceptionInfoByMessage(table, exception) ==
    LET exception_type == IF exception.message = "m2" THEN "unknown_error"
                          ELSE classify_exception(exception.name) IN
    [exception_type |-> exception_type,
     message |-> exception.message,
     recovery_strategy |-> StrategyFor(table, exception_type)]

\* handle_exception: the ExceptionInfo it builds
ExceptionInfo(table, exception) ==
    LET exception_type == classify_exception(exception.name) IN
    [exception_type |-> exception_type,
     message |-> exception.message,
     recovery_strategy |-> StrategyFor(table, exception_type)]

\* the keyword arguments of apply_recovery_strategy
DefaultMaxRetries == 3

NoKwargs == [max_retries |-> {}, fallback_operation |-> FALSE,
             default_return_value |-> {}]

\* nothing, or one of max_retries, fallback_operation, default_return_value
Kwargs ==
    {NoKwargs}
    \cup {[NoKwargs EXCEPT !.max_retries = {n}] : n \in -1..MaxRetriesArg}
    \cup {[NoKwargs EXCEPT !.fallback_operation = TRUE],
          [NoKwargs EXCEPT !.default_return_value = {"dflt"}]}

\* variant: at least one attempt is made
max_retries_at_least_one(kwargs) ==
    IF kwargs.max_retries = {} THEN DefaultMaxRetries
    ELSE LET n == CHOOSE n \in kwargs.max_retries : TRUE
         IN IF n < 1 THEN 1 ELSE n

\* kwargs.get('max_retries', 3)
max_retries_of(kwargs) ==
    IF kwargs.max_retries = {} THEN DefaultMaxRetries
    ELSE CHOOSE n \in kwargs.max_retries : TRUE

\* variant: the last retry is taken to be the one with index max_retries
IsLastRetryOffByOne(i, max_retries) == i = max_retries

\* if i == max_retries - 1
IsLastRetry(i, max_retries) == i = max_retries - 1

\* *args: the positional arguments given after operation
Args == {<<"x">>}

\* variant: the doubled index instead of the power of two
BackoffDoubling(i) == 2 * i

\* time.sleep(2 ** i)
Backoff(i) == 2 ^ i

Idle == [pc |-> "idle"]

\* the call is executing (its caller is blocked in it)
Running == ars.pc \in {"attempt", "sleep"}

ExcInit ==
    /\ recovery_strategies = DefaultStrategies
    /\ overrides = <<>>
    /\ remembered = {}
    /\ exc_info = {}
    /\ ars = Idle

\* self.recovery_strategies[exception_type] = strategy, by the owner
SetStrategy(exception_type, strategy) ==
    LET table == [k \in DOMAIN recovery_strategies \cup {exception_type} |->
                     IF k = exception_type THEN strategy ELSE recovery_strategies[k]]
    IN /\ ~Running
       /\ Cardinality(DOMAIN overrides \cup {exception_type}) <= MaxOverrides
       /\ recovery_strategies' = table
       /\ overrides' = [k \in DOMAIN overrides \cup {exception_type} |->
                           IF k = exception_type THEN strategy ELSE overrides[k]]
       /\ remembered' = {[r EXCEPT !.reassigned = @ \cup {exception_type}] :
                             r \in remembered}
       /\ ret' = NoCall
       /\ UNCHANGED <<goalVars, hubVars, exc_info, ars>>

HandleExceptionCall(exception) ==
    LET info == ExceptionInfo(recovery_strategies, exception) IN
    /\ ~Running
    /\ exc_info' = {info}
    /\ ars' = Idle
    /\ ret' = [op |-> "handle_exception", exception |-> exception, value |-> info]
    /\ UNCHANGED <<goalVars, hubVars, recovery_strategies, overrides>>

HandleException(exception) ==
    /\ HandleExceptionCall(exception)
    /\ UNCHANGED remembered

\* handle_exception, the call being kept to compare later calls with it
RememberHandleException(exception) ==
    /\ HandleExceptionCall(exception)
    /\ remembered' = {[name |-> exception.name,
                       exception_type |-> ret'.value.exception_type,
                       recovery_strategy |-> ret'.value.recovery_strategy,
                       reassigned |-> {}]}

\* variant: the callee is given no arguments
CallWithoutArguments(fn, args, kwargs, outcome, i) ==
    [fn |-> fn, args |-> <<>>, kwargs |-> NoKwargs, outcome |-> outcome, attempt |-> i]

\* a call fn(*args, **kwargs) of operation or fallback_operation and how it ended
Call(fn, args, kwargs, outcome, i) ==
    [fn |-> fn, args |-> args, kwargs |-> kwargs, outcome |-> outcome, attempt |-> i]

\* variant: the escalation is returned to the caller
EscalateReturning(start, info) ==
    [start EXCEPT !.pc = "returned",
                  !.result = {[of |-> "escalation", wraps |-> info.message]}]

\* raise Exception(f"Escalating exception: {exception_info.message}")
Escalate(start, info) ==
    [start EXCEPT !.pc = "raised",
                  !.result = {[of |-> "escalation", wraps |-> info.message]}]

\* apply_recovery_strategy up to its first call of operation, or to its end;
\* outcome is how the fallback operation ends when there is one to call
AfterApply(info, args, kwargs, outcome) ==
    LET strategy == info.recovery_strategy
        start == [pc |-> "attempt", info |-> info, args |-> args,
                  kwargs |-> kwargs, i |-> 0,
                  calls |-> <<>>, slept |-> 0, result |-> {}]
    IN CASE strategy = "retry" ->
              IF 0 < max_retries_of(kwargs)
              THEN start
              ELSE [start EXCEPT !.pc = "returned"]                  \* return None
         [] strategy = "fallback" ->
              IF kwargs.fallback_operation
              THEN [start EXCEPT
                      !.pc = IF outcome = "ok" THEN "returned" ELSE "raised",
                      !.calls = <<Call("fallback_operation", args, kwargs, outcome, 0)>>,
                      !.result = {[of |-> "fallback_operation",
                                   outcome |-> outcome, attempt |-> 0]}]
              ELSE [start EXCEPT !.pc = "returned"]                  \* return None
         [] strategy = "escalate" -> Escalate(start, info)
         [] strategy = "ignore" ->
              [start EXCEPT !.pc = "returned", !.result = kwargs.default_return_value]

ApplyRecoveryStrategy(args, kwargs) ==
    /\ ~Running
    /\ \E info \in exc_info : \E outcome \in {"ok", "fail"} :
          ars' = AfterApply(info, args, kwargs, outcome)
    /\ ret' = NoCall
    /\ UNCHANGED <<goalVars, hubVars, recovery_strategies, overrides, remembered, exc_info>>

\* variant: a result is returned only by the last attempt
AfterAttemptToTheEnd(run, outcome) ==
    LET called == [run EXCEPT !.calls = Append(@, Call("operation", run.args,
                                                       run.kwargs, outcome, run.i))]
        value == {[of |-> "operation", outcome |-> outcome, attempt |-> run.i]}
    IN IF IsLastRetry(run.i, max_retries_of(run.kwargs))
       THEN [called EXCEPT !.pc = IF outcome = "ok" THEN "returned" ELSE "raised",
                           !.result = value]
       ELSE [called EXCEPT !.pc = "sleep"]

\* one pass of the retry loop of the call run: operation(*args, **kwargs)
\* returns or raises
AfterAttempt(run, outcome) ==
    LET called == [run EXCEPT !.calls = Append(@, Call("operation", run.args,
                                                       run.kwargs, outcome, run.i))]
        value == {[of |-> "operation", outcome |-> outcome, attempt |-> run.i]}
    IN IF outcome = "ok"
       THEN [called EXCEPT !.pc = "returned", !.result = value]
       ELSE IF IsLastRetry(run.i, max_retries_of(run.kwargs))
            THEN [called EXCEPT !.pc = "raised", !.result = value]      \* raise e
            ELSE [called EXCEPT !.pc = "sleep"]

RetryAttempt(outcome) ==
    /\ ars.pc = "attempt"
    /\ ars' = AfterAttempt(ars, outcome)
    /\ UNCHANGED <<goalVars, hubVars, recovery_strategies, overrides, remembered, exc_info, ret>>

\* time.sleep(2 ** i), then the next pass of the loop, if there is one
RetrySleep ==
    /\ ars.pc = "sleep"
    /\ ars' = [ars EXCEPT !.slept = @ + Backoff(ars.i),
                          !.i = @ + 1,
                          !.pc = IF ars.i + 1 < max_retries_of(ars.kwargs)
                                 THEN "attempt" ELSE "returned"]
    /\ UNCHANGED <<goalVars, hubVars, recovery_strategies, overrides, remembered, exc_info, ret>>

ExcNext ==
    \/ \E k \in ExceptionType, st \in RecoveryStrategy : SetStrategy(k, st)
    \/ \E e \in CommonExceptions : HandleException(e)
    \/ \E a \in Args, kw \in Kwargs : ApplyRecoveryStrategy(a, kw)
    \/ \E o \in {"ok", "fail"} : RetryAttempt(o)
    \/ RetrySleep

(***************************************************************************)
(* Customer-service agent: process() when its body fails                   *)
(***************************************************************************)
\* what _handle_process_exception returns: no error text, no strategy label
RecoveryResponse ==
    [response |-> "temporary_problem", source |-> {"system_recovery"},
     error |-> {}, recovery_strategy |-> {}]

\* the response built when the recovery gave nothing: str(e) and the label
ErrorResponse(exception, info) ==
    [response |-> "apology", source |-> {},
     error |-> {exception.message},
     recovery_strategy |-> {info.recovery_strategy}]

\* the except branch of process(): handle_exception, then
\* apply_recovery_strategy(exception_info, self._handle_process_exception,
\* input_data), the operation returning RecoveryResponse when it is called
ProcessFails(exception) ==
    LET info == ExceptionInfo(recovery_strategies, exception)
        applied == AfterApply(info, <<"input_data">>, NoKwargs, "ok")
        run == IF applied.pc = "attempt" THEN AfterAttempt(applied, "ok") ELSE applied
    IN /\ ~Running
       /\ exc_info' = {info}
       /\ ars' = run
       /\ ret' = [op |-> "process", exception |-> exception, info |-> info,
                  outcome |-> run.pc,
                  value |-> IF run.pc = "raised" THEN run.result
                            ELSE IF run.result # {}              \* if recovery_result
                                 THEN {RecoveryResponse}
                                 ELSE {ErrorResponse(exception, info)}]
       /\ UNCHANGED <<goalVars, hubVars, recovery_strategies, overrides, remembered>>

\* failing process() calls, the strategy table being reassigned between them
ProcessNext ==
    \/ \E k \in ExceptionType, st \in RecoveryStrategy : SetStrategy(k, st)
    \/ \E e \in CommonExceptions : ProcessFails(e)

(***************************************************************************)
(* Communication hub                                                       *)
(***************************************************************************)
AgentNames == {"A", "B", "C"}

\* agent objects: a1 and a2 are BaseAgents; a3 is an object without
\* receive_message and without history, so delivering to it raises
AgentObjects == {"a1", "a2", "a3"}

BaseAgents == {"a1", "a2"}

\* the objects registered under each name
AgentsFor(name) ==
    CASE name = "A" -> {"a1"}
      [] name = "B" -> {"a2"}
      [] name = "C" -> {"a2", "a3"}

Senders == {"A"}

Contents == {"hello"}

\* metadata arguments: None, or a mapping
Metadatas == {{}}

\* variant: sender and recipient change places
MessageSwapped(sender, recipient, content, metadata) ==
    [sender |-> recipient, recipient |-> sender, content |-> content,
     metadata |-> metadata]

\* Message(sender, recipient, content, metadata or {}); the timestamp is
\* not represented
Message(sender, recipient, content, metadata) ==
    [sender |-> sender, recipient |-> recipient, content |-> content,
     metadata |-> metadata]

\* the keys of the agents dict, in iteration order
RegisteredNames(reg) == [i \in 1..Len(reg) |-> reg[i][1]]

\* recipient in self.agents
IsRegistered(reg, name) == \E i \in 1..Len(reg) : reg[i][1] = name

\* self.agents[name]
AgentAt(reg, name) == reg[CHOOSE i \in 1..Len(reg) : reg[i][1] = name][2]

\* self.agents[name] = agent: a present key keeps its place
DictSet(reg, name, agent) ==
    IF IsRegistered(reg, name)
    THEN [i \in 1..Len(reg) |-> IF reg[i][1] = name THEN <<name, agent>> ELSE reg[i]]
    ELSE Append(reg, <<name, agent>>)

\* del self.agents[name]
DictDel(reg, name) ==
    LET RECURSIVE Drop(_)
        Drop(r) == IF r = <<>> THEN <<>>
                   ELSE IF Head(r)[1] = name THEN Tail(r)
                   ELSE <<Head(r)>> \o Drop(Tail(r))
    IN Drop(reg)

\* BaseAgent.receive_message on a hub state st = [queue, history];
\* an object that has no such method raises
ReceiveRaises(agent) == agent \notin BaseAgents

receive_message(st, agent, message) ==
    [st EXCEPT !.history[agent] = Append(@, message)]

Result(success, recipient, text) ==
    [success |-> success, recipient |-> recipient, message |-> text]

\* variant: the message is queued before the recipient is looked up
send_message_queue_first(reg, st, sender, recipient, content, metadata) ==
    LET message == Message(sender, recipient, content, metadata)
        queued == [st EXCEPT !.queue = Append(@, message)]
    IN IF ~IsRegistered(reg, recipient)
       THEN [st |-> queued, result |-> Result(FALSE, recipient, "not found")]
       ELSE IF ReceiveRaises(AgentAt(reg, recipient))
            THEN [st |-> queued, result |-> Result(FALSE, recipient, "failed")]
            ELSE [st |-> receive_message(queued, AgentAt(reg, recipient), message),
                  result |-> Result(TRUE, recipient, "sent")]

\* variant: a message whose delivery failed is taken back off the queue
send_message_taking_back(reg, st, sender, recipient, content, metadata) ==
    IF ~IsRegistered(reg, recipient)
    THEN [st |-> st, result |-> Result(FALSE, recipient, "not found")]
    ELSE LET message == Message(sender, recipient, content, metadata)
             queued == [st EXCEPT !.queue = Append(@, message)]
             recipient_agent == AgentAt(reg, recipient)
         IN IF ReceiveRaises(recipient_agent)
            THEN [st |-> st, result |-> Result(FALSE, recipient, "failed")]
            ELSE [st |-> receive_message(queued, recipient_agent, message),
                  result |-> Result(TRUE, recipient, "sent")]

\* send_message: the hub state after the call and the CommunicationResult
send_message(reg, st, sender, recipient, content, metadata) ==
    IF ~IsRegistered(reg, recipient)
    THEN [st |-> st, result |-> Result(FALSE, recipient, "not found")]
    ELSE LET message == Message(sender, recipient, content, metadata)
             queued == [st EXCEPT !.queue = Append(@, message)]
             recipient_agent == AgentAt(reg, recipient)
         IN IF ReceiveRaises(recipient_agent)                 \* except Exception
            THEN [st |-> queued, result |-> Result(FALSE, recipient, "failed")]
            ELSE [st |-> receive_message(queued, recipient_agent, message),
                  result |-> Result(TRUE, recipient, "sent")]

\* broadcast_message: the loop over the agents dict from position i on
RECURSIVE broadcast_from(_, _, _, _, _, _, _)
broadcast_from(reg, st, i, sender, content, metadata, exclude) ==
    IF i > Len(reg) THEN [st |-> st, results |-> <<>>]
    ELSE LET agent_name == reg[i][1] IN
         IF agent_name \notin exclude
         THEN LET sent == send_message(reg, st, sender, agent_name, content, metadata)
                  rest == broadcast_from(reg, sent.st, i + 1, sender, content,
                                         metadata, exclude)
              IN [st |-> rest.st, results |-> <<sent.result>> \o rest.results]
         ELSE broadcast_from(reg, st, i + 1, sender, content, metadata, exclude)

\* variant: the exclude list is not consulted
broadcast_message_to_all(reg, st, sender, content, metadata, exclude) ==
    broadcast_from(reg, st, 1, sender, content, metadata, {})

\* broadcast_message
broadcast_message(reg, st, sender, content, metadata, exclude) ==
    broadcast_from(reg, st, 1, sender, content, metadata, exclude)

HubState == [queue |-> message_queue, history |-> history]

\* the limit argument of get_message_history
Limits == 0..MaxLimit

\* seq[start:] for a list of length n: a negative start counts from the end
SliceFrom(seq, start) ==
    LET n == Len(seq)
        first == IF start < 0
                 THEN (IF n + start < 0 THEN 0 ELSE n + start)
                 ELSE (IF start > n THEN n ELSE start)
    IN SubSeq(seq, first + 1, n)

\* get_message_history: hist maps the objects that have a history to it
get_message_history(reg, hist, agent_name, limit) ==
    IF IsRegistered(reg, agent_name) /\ AgentAt(reg, agent_name) \in DOMAIN hist
    THEN LET h == hist[AgentAt(reg, agent_name)]
         IN IF Len(h) >= limit THEN SliceFrom(h, -limit) ELSE h
    ELSE <<>>

\* the subscribers, the topics and the handlers of the subscriptions:
\* h_ok returns, h_fail raises
Subscribers == {"A", "B"}
Topics == {"default", "fault", "A"}
Handlers == {"h_ok", "h_fail"}

\* the characters of the strings that make up handler keys
Chars(str) ==
    CASE str = "A" -> <<"A">>
      [] str = "B" -> <<"B">>
      [] str = "C" -> <<"C">>
      [] str = "fault" -> <<"f", "a", "u", "l", "t">>
      [] str = "default" -> <<"d", "e", "f", "a", "u", "l", "t">>

\* f"{agent_name}:{topic}"
TopicKey(agent_name, topic) == Chars(agent_name) \o <<":">> \o Chars(topic)

\* handler_key.split(':')[0]
RECURSIVE BeforeColon(_)
BeforeColon(handler_key) ==
    IF handler_key = <<>> \/ Head(handler_key) = ":" THEN <<>>
    ELSE <<Head(handler_key)>> \o BeforeColon(Tail(handler_key))

\* variant: a subscription matches when its topic is the published one
TopicMatchesExactly(topic, handler_key) ==
    \E n \in Subscribers : handler_key = TopicKey(n, topic)

\* if topic in handler_key
TopicMatches(topic, handler_key) == Contains(Chars(topic), handler_key)

\* publish_to_topic: the loop over message_handlers from position i on;
\* calls lists the keys whose handler was called, results the results
RECURSIVE publish_from(_, _, _)
publish_from(handlers, topic, i) ==
    IF i > Len(handlers) THEN [calls |-> <<>>, results |-> <<>>]
    ELSE LET handler_key == handlers[i][1]
             handler == handlers[i][2]
             rest == publish_from(handlers, topic, i + 1)
         IN IF TopicMatches(topic, handler_key)
            THEN [calls |-> <<handler_key>> \o rest.calls,
                  results |-> <<[success |-> handler # "h_fail",
                                 topic |-> topic,
                                 agent_name |-> BeforeColon(handler_key)]>>
                              \o rest.results]
            ELSE rest

publish_to_topic(handlers, topic) == publish_from(handlers, topic, 1)

Drainers == {"d1", "d2"}

\* an invocation that has not been called: initial is the queue it found,
\* removed the messages it popped, enqueued whether a message was appended
\* while it ran, at_yield whether one was appended while it was suspended
\* at an await, left the queue it left behind when it ended
IdleDrain == [pc |-> "idle", initial |-> <<>>, removed |-> <<>>, enqueued |-> FALSE,
              at_yield |-> FALSE, handler |-> {}, left |-> <<>>]

\* the number of messages the invocations ds have popped
RECURSIVE RemovedBy(_)
RemovedBy(ds) ==
    IF ds = {} THEN 0
    ELSE LET d == CHOOSE x \in ds : TRUE
         IN Len(drain[d].removed) + RemovedBy(ds \ {d})

\* the invocations that are running learn that the queue grew; one that
\* has popped a message is at the await of a handler or of the sleep
NoteEnqueued(dr, grew) ==
    [d \in Drainers |->
        IF grew /\ dr[d].pc \in {"loop", "handler", "sleep"}
        THEN [dr[d] EXCEPT !.enqueued = TRUE,
                           !.at_yield = @ \/ dr[d].removed # <<>>]
        ELSE dr[d]]

\* variant: the topic of the metadata is not looked at
TopicOfDefault(message) == "default"

\* message.metadata.get('topic', 'default') if message.metadata else 'default';
\* a mapping is the set of its <<key, value>> pairs
TopicOf(message) ==
    IF \E p \in message.metadata : p[1] = "topic"
    THEN (CHOOSE p \in message.metadata : p[1] = "topic")[2]
    ELSE "default"

\* variant: a recipient that holds the message already is not given it again
DeliverOnce(dr, hist, reg, message, queue) ==
    IF IsRegistered(reg, message.recipient)
    THEN LET recipient_agent == AgentAt(reg, message.recipient)
         IN IF ReceiveRaises(recipient_agent)
            THEN [drain |-> [dr EXCEPT !.pc = "raised", !.left = queue], history |-> hist]
            ELSE [drain |-> [dr EXCEPT !.pc = "sleep"],
                  history |-> [hist EXCEPT ![recipient_agent] =
                                  IF InList(@, message) THEN @ ELSE Append(@, message)]]
    ELSE [drain |-> [dr EXCEPT !.pc = "sleep"], history |-> hist]

\* variant: the recipient is looked up with self.agents[...], which raises
\* for a name that is not registered
DeliverIndexing(dr, hist, reg, message, queue) ==
    IF IsRegistered(reg, message.recipient)
    THEN LET recipient_agent == AgentAt(reg, message.recipient)
         IN IF ReceiveRaises(recipient_agent)
            THEN [drain |-> [dr EXCEPT !.pc = "raised", !.left = queue], history |-> hist]
            ELSE [drain |-> [dr EXCEPT !.pc = "sleep"],
                  history |-> [hist EXCEPT ![recipient_agent] = Append(@, message)]]
    ELSE [drain |-> [dr EXCEPT !.pc = "raised", !.left = queue], history |-> hist]

\* process_message_queue, no handler for the message: the invocation dr and
\* the histories after recipient_agent.receive_message(message), if there is
\* a recipient; what receive_message raises ends the invocation
Deliver(dr, hist, reg, message, queue) ==
    IF IsRegistered(reg, message.recipient)
    THEN LET recipient_agent == AgentAt(reg, message.recipient)
         IN IF ReceiveRaises(recipient_agent)
            THEN [drain |-> [dr EXCEPT !.pc = "raised", !.left = queue], history |-> hist]
            ELSE [drain |-> [dr EXCEPT !.pc = "sleep"],
                  history |-> [hist EXCEPT ![recipient_agent] = Append(@, message)]]
    ELSE [drain |-> [dr EXCEPT !.pc = "sleep"], history |-> hist]

HubInit ==
    /\ agents = <<>>
    /\ message_queue = <<>>
    /\ history = [a \in BaseAgents |-> <<>>]
    /\ message_handlers = <<>>
    /\ drain = [d \in Drainers |-> IdleDrain]

RegisterAgent(agent_name, agent_instance) ==
    /\ agents' = DictSet(agents, agent_name, agent_instance)
    /\ ret' = [op |-> "register_agent"]
    /\ UNCHANGED <<goalVars, excVars, message_queue, history, message_handlers, drain>>

UnregisterAgent(agent_name) ==
    /\ agents' = IF IsRegistered(agents, agent_name)
                 THEN DictDel(agents, agent_name) ELSE agents
    /\ ret' = [op |-> "unregister_agent"]
    /\ UNCHANGED <<goalVars, excVars, message_queue, history, message_handlers, drain>>

\* a call of send_message, whatever number of messages is around
SendMessageCall(sender, recipient, content, metadata) ==
    LET out == send_message(agents, HubState, sender, recipient, content, metadata) IN
    /\ message_queue' = out.st.queue
    /\ history' = out.st.history
    /\ drain' = NoteEnqueued(drain, Len(out.st.queue) > Len(message_queue))
    /\ ret' = [op |-> "send_message", sender |-> sender, recipient |-> recipient,
               content |-> content, metadata |-> metadata, value |-> out.result]
    /\ UNCHANGED <<goalVars, excVars, agents, message_handlers>>

SendMessage(sender, recipient, content, metadata) ==
    /\ Len(message_queue) + RemovedBy(Drainers) < MaxQueue
    /\ SendMessageCall(sender, recipient, content, metadata)

BroadcastMessage(sender, content, metadata, exclude) ==
    LET out == broadcast_message(agents, HubState, sender, content, metadata, exclude) IN
    /\ Len(out.st.queue) + RemovedBy(Drainers) <= MaxQueue
    /\ message_queue' = out.st.queue
    /\ history' = out.st.history
    /\ drain' = NoteEnqueued(drain, Len(out.st.queue) > Len(message_queue))
    /\ ret' = [op |-> "broadcast_message", sender |-> sender, content |-> content,
               metadata |-> metadata, exclude |-> exclude, value |-> out.results]
    /\ UNCHANGED <<goalVars, excVars, agents, message_handlers>>

GetMessageHistory(agent_name, limit) ==
    /\ ret' = [op |-> "get_message_history", agent_name |-> agent_name,
               limit |-> limit,
               value |-> get_message_history(agents, history, agent_name, limit)]
    /\ UNCHANGED <<goalVars, excVars, hubVars>>

SubscribeToTopic(agent_name, topic, handler) ==
    LET table == DictSet(message_handlers, TopicKey(agent_name, topic), handler) IN
    /\ Len(table) <= MaxHandlers
    /\ message_handlers' = table
    /\ ret' = [op |-> "subscribe_to_topic"]
    /\ UNCHANGED <<goalVars, excVars, agents, message_queue, history, drain>>

PublishToTopic(sender, topic, content, metadata) ==
    LET out == publish_to_topic(message_handlers, topic) IN
    /\ ret' = [op |-> "publish_to_topic", topic |-> topic,
               calls |-> out.calls, value |-> out.results]
    /\ UNCHANGED <<goalVars, excVars, hubVars>>

\* process_message_queue() is called and scheduled
DrainStart(d) ==
    /\ drain[d].pc = "idle"
    /\ drain' = [drain EXCEPT ![d] = [IdleDrain EXCEPT !.pc = "loop",
                                                       !.initial = message_queue]]
    /\ ret' = NoCall
    /\ UNCHANGED <<goalVars, excVars, agents, message_queue, history, message_handlers>>

\* while self.message_queue: one message is popped and handed to its
\* handler or to its recipient, up to the next await; or the loop ends
DrainStep(d) ==
    /\ drain[d].pc = "loop"
    /\ IF message_queue = <<>>
       THEN /\ drain' = [drain EXCEPT ![d].pc = "done", ![d].left = message_queue]
            /\ UNCHANGED <<message_queue, history>>
       ELSE LET message == Head(message_queue)
                handler_key == TopicKey(message.recipient, TopicOf(message))
                popped == [drain[d] EXCEPT !.removed = Append(@, message)]
            IN /\ message_queue' = Tail(message_queue)
               /\ IF IsRegistered(message_handlers, handler_key)
                  THEN /\ drain' = [drain EXCEPT ![d] =
                                       [popped EXCEPT
                                          !.pc = "handler",
                                          !.handler = {AgentAt(message_handlers,
                                                               handler_key)}]]
                       /\ UNCHANGED history
                  ELSE LET out == Deliver(popped, history, agents, message,
                                          Tail(message_queue))
                       IN /\ drain' = [drain EXCEPT ![d] = out.drain]
                          /\ history' = out.history
    /\ ret' = NoCall
    /\ UNCHANGED <<goalVars, excVars, agents, message_handlers>>

\* await handler(message) is over: the handler returned, or it raised and
\* the error was printed
DrainHandlerReturns(d) ==
    /\ drain[d].pc = "handler"
    /\ drain' = [drain EXCEPT ![d].pc = "sleep", ![d].handler = {}]
    /\ ret' = NoCall
    /\ UNCHANGED <<goalVars, excVars, agents, message_queue, history, message_handlers>>

\* await asyncio.sleep(0.01) is over
DrainWake(d) ==
    /\ drain[d].pc = "sleep"
    /\ drain' = [drain EXCEPT ![d].pc = "loop"]
    /\ ret' = NoCall
    /\ UNCHANGED <<goalVars, excVars, agents, message_queue, history, message_handlers>>

\* the content of the k-th message sent: every send has a text of its own
NumberedContent(k) == <<"hello", k>>

\* the messages sent while a drain may run: to A with or without a topic,
\* to C without one
DrainSends ==
    {<<"A", {}>>, <<"A", {<<"topic", "fault">>}>>, <<"C", {}>>}

\* one invocation of the drain loop among registrations, subscriptions
\* and sends
DrainNext ==
    \/ RegisterAgent("A", "a1")
    \/ RegisterAgent("C", "a3")
    \/ \E n \in {"A", "C"} : UnregisterAgent(n)
    \/ SubscribeToTopic("A", "default", "h_fail")
    \/ SubscribeToTopic("A", "fault", "h_ok")
    \/ \E sn \in Senders, s \in DrainSends :
          /\ Len(message_queue) + RemovedBy(Drainers) < MaxPending
          /\ SendMessage(sn, s[1],
                         NumberedContent(Len(message_queue) + RemovedBy(Drainers) + 1),
                         s[2])
    \/ DrainStart("d1")
    \/ DrainStep("d1")
    \/ DrainHandlerReturns("d1")
    \/ DrainWake("d1")

\* the messages sent while two drains may run: to C, whose receive_message
\* raises, with or without the topic C has a handler for
InterleavedSends ==
    {<<"C", {<<"topic", "fault">>}>>, <<"C", {}>>}

\* two invocations of the drain loop, each run whenever the event loop
\* picks it, among registrations, one subscription and sends
InterleavedNext ==
    \/ RegisterAgent("C", "a3")
    \/ SubscribeToTopic("C", "fault", "h_ok")
    \/ \E sn \in Senders, s \in InterleavedSends :
          /\ Len(message_queue) + RemovedBy(Drainers) < MaxInterleaved
          /\ SendMessageCall(sn, s[1],
                             NumberedContent(Len(message_queue) + RemovedBy(Drainers) + 1),
                             s[2])
    \/ \E d \in Drainers : DrainStart(d)
    \/ \E d \in Drainers : DrainStep(d)
    \/ \E d \in Drainers : DrainHandlerReturns(d)
    \/ \E d \in Drainers : DrainWake(d)

\* subscriptions and publications
PubSubNext ==
    \/ \E n \in Subscribers, t \in Topics, h \in Handlers : SubscribeToTopic(n, t, h)
    \/ \E sn \in Senders, t \in Topics, c \in Contents, m \in Metadatas :
          PublishToTopic(sn, t, c, m)

HubNext ==
    \/ \E n \in AgentNames, l \in Limits : GetMessageHistory(n, l)
    \/ \E n \in AgentNames : \E a \in AgentsFor(n) : RegisterAgent(n, a)
    \/ \E n \in AgentNames : UnregisterAgent(n)
    \/ \E sn \in Senders, r \in AgentNames, c \in Contents, m \in Metadatas :
          SendMessage(sn, r, c, m)
    \/ \E sn \in Senders, c \in Contents, m \in Metadatas, ex \in SUBSET AgentNames :
          BroadcastMessage(sn, c, m, ex)

\* handle_exception calls, one of them kept, and assignments to the table
DeterminismNext ==
    \/ \E k \in ExceptionType, s \in RecoveryStrategy : SetStrategy(k, s)
    \/ \E e \in RepeatedExceptions : HandleException(e)
    \/ \E e \in RepeatedExceptions : RememberHandleException(e)

\* classification alone: handle_exception on every failure name
ClassifyNext == \E e \in Exceptions : HandleException(e)

Init ==
    /\ GoalInit
    /\ ExcInit
    /\ HubInit
    /\ ret = NoCall

GoalSpec == Init /\ [][GoalNext]_vars

ExcSpec == Init /\ [][ExcNext]_vars

ProcessSpec == Init /\ [][ProcessNext]_vars

DeterminismSpec == Init /\ [][DeterminismNext]_vars

DrainSpec == Init /\ [][DrainNext]_vars

InterleavedSpec == Init /\ [][InterleavedNext]_vars

PubSubSpec == Init /\ [][PubSubNext]_vars

ClassifySpec == Init /\ [][ClassifyNext]_vars

HubSpec == Init /\ [][HubNext]_vars

(***************************************************************************)
(* Properties of the goal tracker                                          *)
(***************************************************************************)
Emits(alerts, goal_id, type) ==
    \E k \in 1..Len(alerts) : alerts[k] = [goal_id |-> goal_id, type |-> type]

\* fractions compared exactly (denominators are positive)
RatEq(p, q) == p[1] * q[2] = q[1] * p[2]
RatLt(p, q) == p[1] * q[2] < q[1] * p[2]

\* C1: after any sequence of create_goal and update_goal_status calls the
\* active index holds no id whose status is COMPLETED, FAILED or CANCELLED,
\* and get_active_goals() returns no goal in such a status.
C1_NoTerminalActive ==
    /\ \A i \in 1..Len(active_goals) :
          goals[active_goals[i]].status \notin TerminalStatus
    /\ ret.op = "get_active_goals" =>
          \A i \in 1..Len(ret.value) : ret.value[i].status \notin TerminalStatus

\* C2: for every goal in the table, completed_at is set exactly when the
\* status of that entry has been set to COMPLETED at least once since the
\* entry was created; later updates to other statuses do not clear it.
C2_CompletedAtIffEverCompleted ==
    \A g \in DOMAIN goals : (goals[g].completed_at # {}) <=> (g \in everCompleted)

\* a goal that was completed and then moved to another status
C2_Witness ==
    \E g \in DOMAIN goals :
        /\ g \in everCompleted
        /\ goals[g].status \in {"in_progress", "failed"}
        /\ goals[g].completed_at # {}

\* C7: a monitor_goals() call emits an "expiration" alert for an id of the
\* active index exactly when the goal has a deadline, the current time is
\* later than the deadline and the status is not COMPLETED.
C7_ExpirationIff ==
    ret.op = "monitor_goals" =>
        \A i \in 1..Len(active_goals) :
            LET goal == goals[active_goals[i]] IN
            Emits(ret.value, active_goals[i], "expiration")
                <=> /\ goal.deadline # {}
                    /\ \A d \in goal.deadline : now > d
                    /\ goal.status # "completed"

\* monitor_goals() right after creating a goal whose deadline has already
\* passed: the alert is there
C7_Witness ==
    /\ ret.op = "monitor_goals"
    /\ \E i \in 1..Len(active_goals) :
          LET goal == goals[active_goals[i]] IN
          /\ goal.created_at = now
          /\ \E d \in goal.deadline : d < goal.created_at
          /\ Emits(ret.value, active_goals[i], "expiration")

\* C8: a monitor_goals() call emits a "slow_progress" alert for an id of
\* the active index exactly when more than one hour has passed since the
\* goal was created and get_goal_progress of the goal is below 0.10.
C8_SlowProgressIff ==
    ret.op = "monitor_goals" =>
        \A i \in 1..Len(active_goals) :
            LET goal == goals[active_goals[i]] IN
            Emits(ret.value, active_goals[i], "slow_progress")
                <=> /\ now - goal.created_at > Hour
                    /\ RatLt(get_goal_progress(goals, active_goals[i], now), <<1, 10>>)

\* a slow goal whose deadline is still ahead, next to a goal that is not slow
C8_Witness ==
    /\ ret.op = "monitor_goals"
    /\ \E i, j \in 1..Len(active_goals) :
          /\ Emits(ret.value, active_goals[i], "slow_progress")
          /\ \E d \in goals[active_goals[i]].deadline : d > now
          /\ ~Emits(ret.value, active_goals[j], "slow_progress")

\* the reference value of get_goal_progress for a known goal
C9_Reference(goal, t, p) ==
    CASE goal.status = "completed" -> RatEq(p, <<1, 1>>)
      [] goal.status \in {"failed", "cancelled"} -> RatEq(p, <<0, 1>>)
      [] goal.status \in {"pending", "in_progress"} /\ goal.deadline = {} ->
            RatEq(p, <<1, 2>>)
      [] goal.status \in {"pending", "in_progress"} /\ goal.deadline # {} ->
            \A d \in goal.deadline :
                LET total == d - goal.created_at
                    elapsed == t - goal.created_at
                IN  \* clamp(elapsed / total, 0, 1), where the ratio exists
                    /\ total > 0 /\ elapsed <= 0 => RatEq(p, <<0, 1>>)
                    /\ total > 0 /\ elapsed >= total => RatEq(p, <<1, 1>>)
                    /\ total > 0 /\ 0 < elapsed /\ elapsed < total =>
                          p[1] * total = elapsed * p[2]
                    /\ total < 0 /\ elapsed >= 0 => RatEq(p, <<0, 1>>)

C16_CreateOverwrites ==
    [][ret'.op = "create_goal" =>
          /\ DOMAIN goals' = DOMAIN goals \cup {ret'.id}
          /\ goals'[ret'.id] = ret'.value
          /\ goals'[ret'.id].id = ret'.id
          /\ goals'[ret'.id].status = "pending"
          /\ goals'[ret'.id].completed_at = {}
          /\ goals'[ret'.id].created_at = now
          /\ InList(active_goals', ret'.id)
          /\ \A g \in DOMAIN goals \ {ret'.id} : goals'[g] = goals[g]]_vars

\* a goal created again while it was active, later than the other goal
C16_Witness ==
    /\ ret.op = "create_goal"
    /\ active_goals = <<ret.id, ret.id>>
    /\ \E g \in DOMAIN goals : g # ret.id /\ goals[g].created_at < now

\* C17: update_goal_status on an id that is not in the table leaves the
\* table and the active list as they were, whatever the status, and ends
\* without an error.
C17_UnknownIdIgnored ==
    [][(ret'.op = "update_goal_status" /\ ret'.id \notin DOMAIN goals) =>
          /\ goals' = goals
          /\ active_goals' = active_goals]_vars

\* an unknown id updated while another goal is active
C17_Witness ==
    /\ ret.op = "update_goal_status"
    /\ ret.id \notin DOMAIN goals
    /\ goals # <<>>
    /\ active_goals # <<>>

\* C23: the completed timestamp of a goal is written once, by its first
\* transition to Completed: an update_goal_status(id, Completed) on an
\* entry whose timestamp is set leaves the timestamp as it is.
C23_CompletedAtWrittenOnce ==
    [][(/\ ret'.op = "update_goal_status"
        /\ ret'.id \in DOMAIN goals
        /\ goals'[ret'.id].status = "completed"
        /\ goals[ret'.id].completed_at # {})
       => goals'[ret'.id].completed_at = goals[ret'.id].completed_at]_vars

\* C24: after update_goal_status(id, s) on a known id with s Pending or
\* InProgress, whatever the status before, id is in the active index, and
\* the index is left as it was when id was in it already.
C24_NonTerminalUpdateActivates ==
    [][(/\ ret'.op = "update_goal_status"
        /\ ret'.id \in DOMAIN goals
        /\ goals'[ret'.id].status \in {"pending", "in_progress"})
       => /\ InList(active_goals', ret'.id)
          /\ InList(active_goals, ret'.id) => active_goals' = active_goals]_vars

\* C25: the active index is a set: no goal id occurs in it more than once.
C25_ActiveIndexIsSet ==
    \A i, j \in 1..Len(active_goals) :
        active_goals[i] = active_goals[j] => i = j

\* both alerts are in the result for the goal
C26_Both(alerts, goal_id) ==
    Emits(alerts, goal_id, "expiration") /\ Emits(alerts, goal_id, "slow_progress")

\* C26: a monitor_goals() call emits both an 'expiration' and a
\* 'slow_progress' alert for a goal of the active index exactly when the
\* goal has a deadline that has passed, was created more than one hour ago,
\* and either is Failed or Cancelled, or is Pending or InProgress with a
\* deadline not later than its creation; such a call is reachable.
C26_BothAlertsIff ==
    ret.op = "monitor_goals" =>
        \A i \in 1..Len(active_goals) :
            LET goal == goals[active_goals[i]] IN
            C26_Both(ret.value, active_goals[i])
                <=> /\ goal.deadline # {}
                    /\ \A d \in goal.deadline : now > d
                    /\ now - goal.created_at > Hour
                    /\ \/ goal.status \in {"failed", "cancelled"}
                       \/ /\ goal.status \in {"pending", "in_progress"}
                          /\ \A d \in goal.deadline : d <= goal.created_at

\* a call that emits both alerts for a pending goal, created at its deadline
C26_Witness ==
    /\ ret.op = "monitor_goals"
    /\ \E i \in 1..Len(active_goals) :
          /\ goals[active_goals[i]].status = "pending"
          /\ C26_Both(ret.value, active_goals[i])

\* C30: for a goal whose deadline is later than its creation, no
\* monitor_goals() call emits both 'expiration' and 'slow_progress'.
C30_AlertsExclusive ==
    ret.op = "monitor_goals" =>
        \A i \in 1..Len(active_goals) :
            LET goal == goals[active_goals[i]] IN
            (\E d \in goal.deadline : d > goal.created_at)
                => ~C26_Both(ret.value, active_goals[i])

(***************************************************************************)
(* Properties of the exception recovery engine                             *)
(***************************************************************************)
Finished == ars.pc \in {"returned", "raised"}

AllFailed(calls) == \A k \in 1..Len(calls) : calls[k].outcome = "fail"

\* max_retries as the caller gave it, 3 when not given
C3_N == IF ars.kwargs.max_retries = {} THEN 3
        ELSE CHOOSE n \in ars.kwargs.max_retries : TRUE

\* C3: under Retry with max_retries n >= 1 (3 by default) and an operation
\* that fails on every invocation, apply_recovery_strategy invokes the
\* operation exactly n times and then raises the failure of the last
\* invocation instead of returning.
C3_RetryExhausts ==
    (ars.pc # "idle" /\ ars.info.recovery_strategy = "retry" /\ C3_N >= 1
        /\ AllFailed(ars.calls)) =>
        /\ Len(ars.calls) <= C3_N
        /\ \A k \in 1..Len(ars.calls) : ars.calls[k].fn = "operation"
        /\ Finished =>
              /\ Len(ars.calls) = C3_N
              /\ ars.pc = "raised"
              /\ ars.result = {[of |-> "operation", outcome |-> "fail",
                                attempt |-> C3_N - 1]}

\* a default retry run (no max_retries given) that failed three times
C3_Witness ==
    /\ ars.pc = "raised"
    /\ ars.info.recovery_strategy = "retry"
    /\ ars.kwargs.max_retries = {}
    /\ Len(ars.calls) = 3
    /\ AllFailed(ars.calls)

\* C13: under Escalate, apply_recovery_strategy never returns a value and
\* never invokes the operation (nor anything else): every call raises a new
\* failure that wraps the message of the record.
C13_EscalateRaises ==
    (ars.pc # "idle" /\ ars.info.recovery_strategy = "escalate") =>
        /\ ars.pc = "raised"
        /\ ars.calls = <<>>
        /\ ars.result = {[of |-> "escalation", wraps |-> ars.info.message]}

\* an escalated call that was given a fallback operation
C13_Witness ==
    /\ ars.pc = "raised"
    /\ ars.info.recovery_strategy = "escalate"
    /\ ars.kwargs.fallback_operation

\* C14: under Fallback the primary operation is never invoked; when a
\* fallback_operation is given it is invoked exactly once, with the
\* positional and keyword arguments the caller gave (the keyword arguments
\* are the ones that carry the options), and the call ends as it ends,
\* returning its result; when none is given nothing is invoked and the call
\* returns None.
C14_Fallback ==
    (ars.pc # "idle" /\ ars.info.recovery_strategy = "fallback") =>
        /\ Finished
        /\ \A k \in 1..Len(ars.calls) : ars.calls[k].fn # "operation"
        /\ IF ars.kwargs.fallback_operation
           THEN /\ Len(ars.calls) = 1
                /\ ars.calls[1].fn = "fallback_operation"
                /\ ars.calls[1].args = ars.args
                /\ ars.calls[1].kwargs = ars.kwargs
                /\ ars.result = {[of |-> "fallback_operation",
                                  outcome |-> ars.calls[1].outcome, attempt |-> 0]}
                /\ ars.pc = "returned" <=> ars.calls[1].outcome = "ok"
           ELSE /\ ars.calls = <<>>
                /\ ars.pc = "returned"
                /\ ars.result = {}

\* a fallback call with a positional argument whose fallback returned
C14_Witness ==
    /\ ars.pc = "returned"
    /\ ars.info.recovery_strategy = "fallback"
    /\ ars.kwargs.fallback_operation
    /\ ars.args # <<>>
    /\ Len(ars.calls) = 1

\* C15: under Retry the engine has slept 2^0 + ... + 2^(i-1) = 2^i - 1 time
\* units when it is about to make, or has made, the attempt of index i; it
\* sleeps only after a failed attempt that is not the last one, so a run of
\* n failed attempts that has ended slept 2^(n-1) - 1 time units in all.
C15_Backoff ==
    (ars.pc # "idle" /\ ars.info.recovery_strategy = "retry" /\ C3_N >= 1) =>
        /\ ars.slept = 2 ^ ars.i - 1
        /\ ars.pc = "sleep" =>
              /\ ars.i < C3_N - 1
              /\ Len(ars.calls) = ars.i + 1
              /\ ars.calls[ars.i + 1].outcome = "fail"
        /\ (Finished /\ AllFailed(ars.calls)) =>
              /\ Len(ars.calls) = C3_N
              /\ ars.slept = 2 ^ (Len(ars.calls) - 1) - 1

\* a run of three failed attempts that slept 1 + 2 time units
C15_Witness ==
    /\ ars.pc = "raised"
    /\ ars.info.recovery_strategy = "retry"
    /\ Len(ars.calls) = 3
    /\ AllFailed(ars.calls)
    /\ ars.slept = 3
    /\ ars.kwargs.max_retries = {3}

\* C28: under Retry the operation is invoked until its first success and
\* no further: when the attempt of index k < max_retries succeeds, the
\* operation has been invoked k+1 times, the attempts before it failed, and
\* the call returns the result of that attempt without raising.
C28_FirstSuccessReturns ==
    (ars.pc # "idle" /\ ars.info.recovery_strategy = "retry") =>
        \A j \in 1..Len(ars.calls) :
            /\ ars.calls[j].fn = "operation"
            /\ ars.calls[j].attempt = j - 1
            /\ j <= C3_N
            /\ ars.calls[j].outcome = "ok" =>
                  /\ j = Len(ars.calls)
                  /\ ars.pc = "returned"
                  /\ ars.result = {[of |-> "operation", outcome |-> "ok",
                                    attempt |-> j - 1]}

\* a run whose third attempt was the first to succeed
C28_Witness ==
    /\ ars.pc = "returned"
    /\ ars.info.recovery_strategy = "retry"
    /\ Len(ars.calls) = 3
    /\ ars.calls[1].outcome = "fail"
    /\ ars.calls[2].outcome = "fail"
    /\ ars.calls[3].outcome = "ok"

\* C29: under Retry with max_retries <= 0 the operation is never invoked
\* and apply_recovery_strategy returns None without raising: the failure
\* that was handled is dropped.
C29_NoRetriesSwallows ==
    (ars.pc # "idle" /\ ars.info.recovery_strategy = "retry" /\ C3_N <= 0) =>
        /\ ars.pc = "returned"
        /\ ars.calls = <<>>
        /\ ars.result = {}

\* a retry call with max_retries = 0
C29_Witness ==
    /\ ars.pc = "returned"
    /\ ars.info.recovery_strategy = "retry"
    /\ ars.kwargs.max_retries = {0}

\* C22: whatever kind the failure raised inside process() is classified
\* as, process() returns instead of raising, and what it returns is the
\* apologetic message with the label of the recovery strategy of the
\* failure and without the text of the failure.
C22_ProcessNeverPropagates ==
    ret.op = "process" =>
        /\ ret.outcome = "returned"
        /\ \A response \in ret.value :
              /\ response.response = "apology"
              /\ response.recovery_strategy = {ret.info.recovery_strategy}
              /\ ret.exception.message \notin response.error

\* the kinds in the order they are tested, and what each one looks for
C10_Precedence == <<"connection_error", "timeout_error", "validation_error",
                    "business_error", "system_error">>

C10_Matches(kind, name) ==
    LET lowered == Lower(name) IN
    CASE kind = "connection_error" ->
            Contains(<<"c", "o", "n", "n", "e", "c", "t", "i", "o", "n">>, lowered)
            \/ Contains(<<"c", "o", "n", "n", "e", "c", "t">>, lowered)
      [] kind = "timeout_error" -> Contains(<<"t", "i", "m", "e", "o", "u", "t">>, lowered)
      [] kind = "validation_error" ->
            Contains(<<"v", "a", "l", "i", "d", "a", "t", "i", "o", "n">>, lowered)
            \/ Contains(<<"v", "a", "l", "u", "e">>, lowered)
      [] kind = "business_error" -> Contains(<<"b", "u", "s", "i", "n", "e", "s", "s">>, lowered)
      [] kind = "system_error" -> Contains(<<"s", "y", "s", "t", "e", "m">>, lowered)

\* C10: the kind of a failure is the first of Connection, Timeout,
\* Validation, Business, System whose keyword occurs, ignoring case, in the
\* failure's type name; Unknown when none occurs.
C10_ClassificationPrecedence ==
    ret.op = "handle_exception" =>
        LET name == ret.exception.name
            kind == ret.value.exception_type
        IN /\ \A k \in 1..Len(C10_Precedence) :
                 kind = C10_Precedence[k]
                    <=> /\ C10_Matches(C10_Precedence[k], name)
                        /\ \A j \in 1..(k - 1) : ~C10_Matches(C10_Precedence[j], name)
           /\ kind = "unknown_error"
                 <=> \A k \in 1..Len(C10_Precedence) : ~C10_Matches(C10_Precedence[k], name)

\* a failure whose name matches two kinds, in upper and lower case
C10_Witness ==
    /\ ret.op = "handle_exception"
    /\ ret.exception.name = <<"T", "i", "m", "e", "O", "u", "t">>
                            \o <<"V", "A", "L", "I", "D", "A", "T", "I", "O", "N">>
    /\ ret.value.exception_type = "timeout_error"

\* the strategy of each kind when the table was never touched
C11_Expected ==
    [k \in ExceptionType |->
        CASE k \in {"connection_error", "timeout_error"} -> "retry"
          [] k \in {"validation_error", "unknown_error"} -> "ignore"
          [] k \in {"business_error", "system_error"} -> "escalate"]

\* C11: the record handle_exception returns carries Retry for Connection
\* and Timeout, Ignore for Validation and Unknown, Escalate for Business
\* and System, except for a kind whose table entry the owner has
\* reassigned: that kind carries the strategy last assigned to it.
C11_StrategyTable ==
    ret.op = "handle_exception" =>
        LET kind == ret.value.exception_type IN
        ret.value.recovery_strategy =
            IF kind \in DOMAIN overrides THEN overrides[kind] ELSE C11_Expected[kind]

\* a failure of a kind whose strategy was reassigned to another one
C11_Witness ==
    /\ ret.op = "handle_exception"
    /\ ret.value.exception_type \in DOMAIN overrides
    /\ ret.value.recovery_strategy # C11_Expected[ret.value.exception_type]

\* C12 as stated: any two handle_exception calls on failures with the
\* same name yield the same kind and the same recovery strategy.
C12_Deterministic ==
    \A r \in remembered :
        (ret.op = "handle_exception" /\ ret.exception.name = r.name) =>
            /\ ret.value.exception_type = r.exception_type
            /\ ret.value.recovery_strategy = r.recovery_strategy

\* C12, amended: any two handle_exception calls on failures with the same
\* name yield the same kind, and the same recovery strategy when the table
\* entry of that kind was not reassigned between the two calls.
C12_DeterministicUnlessReassigned ==
    \A r \in remembered :
        (ret.op = "handle_exception" /\ ret.exception.name = r.name) =>
            /\ ret.value.exception_type = r.exception_type
            /\ r.exception_type \notin r.reassigned =>
                   ret.value.recovery_strategy = r.recovery_strategy

\* two calls on the same name with another message, the entry of another
\* kind reassigned between them
C12_Witness ==
    \E r \in remembered :
        /\ ret.op = "handle_exception"
        /\ ret.exception.name = r.name
        /\ r.reassigned # {}
        /\ r.exception_type \notin r.reassigned

(***************************************************************************)
(* Properties of the communication hub                                     *)
(***************************************************************************)
\* the message a call carried, from the arguments recorded with its result
SentMessage(call, recipient) ==
    [sender |-> call.sender, recipient |-> recipient, content |-> call.content,
     metadata |-> call.metadata]

\* C4: send_message to a recipient that is not registered returns
\* success=false and leaves the registry, the pending queue and every
\* agent's history as they were.
C4_UnregisteredSendFails ==
    [][(ret'.op = "send_message" /\ ~IsRegistered(agents, ret'.recipient)) =>
          /\ ret'.value.success = FALSE
          /\ agents' = agents
          /\ message_queue' = message_queue
          /\ history' = history]_vars

\* a failed send to an unregistered name, with messages already around
C4_Witness ==
    /\ ret.op = "send_message"
    /\ ~IsRegistered(agents, ret.recipient)
    /\ ret.value.success = FALSE
    /\ agents # <<>>
    /\ message_queue # <<>>

\* C5: send_message to a registered recipient whose receive_message works
\* returns success=true, and on return exactly one new message with the
\* given sender, recipient and content is at the end of the pending queue
\* and of the recipient's history.
C5_SendDelivers ==
    [][(ret'.op = "send_message" /\ IsRegistered(agents, ret'.recipient)
          /\ AgentAt(agents, ret'.recipient) \in BaseAgents) =>
          LET m == SentMessage(ret', ret'.recipient)
              a == AgentAt(agents, ret'.recipient)
          IN /\ ret'.value.success = TRUE
             /\ message_queue' = Append(message_queue, m)
             /\ history' = [history EXCEPT ![a] = Append(@, m)]]_vars

\* register A and B, then A sends "hello" to B
C5_Witness ==
    /\ ret.op = "send_message"
    /\ ret.sender = "A" /\ ret.recipient = "B" /\ ret.content = "hello"
    /\ ret.value.success = TRUE
    /\ RegisteredNames(agents) = <<"A", "B">>
    /\ Len(history["a2"]) = 1
    /\ history["a2"][1].content = "hello"

\* the registered names outside exclude, in registry order
RECURSIVE C6_Addressed(_, _)
C6_Addressed(names, exclude) ==
    IF names = <<>> THEN <<>>
    ELSE IF Head(names) \in exclude THEN C6_Addressed(Tail(names), exclude)
    ELSE <<Head(names)>> \o C6_Addressed(Tail(names), exclude)

\* C6: broadcast_message with N registered agents, K of them named in
\* exclude, returns N-K results, one per registered agent outside exclude
\* in registry order, and sends once to each of these and to no other.
C6_BroadcastResults ==
    [][ret'.op = "broadcast_message" =>
          LET names == RegisteredNames(agents)
              addressed == C6_Addressed(names, ret'.exclude)
              N == Len(agents)
              K == Cardinality({n \in ret'.exclude : IsRegistered(agents, n)})
          IN /\ Len(ret'.value) = N - K
             /\ \A i \in 1..(N - K) : ret'.value[i].recipient = addressed[i]
             /\ message_queue' = message_queue \o
                   [i \in 1..Len(addressed) |-> SentMessage(ret', addressed[i])]
             /\ \A a \in BaseAgents :
                   Len(history'[a]) = Len(history[a]) + Cardinality(
                       {i \in 1..Len(addressed) : AgentAt(agents, addressed[i]) = a})
             /\ agents' = agents]_vars

\* three agents registered out of alphabetical order, one of them excluded
C6_Witness ==
    /\ ret.op = "broadcast_message"
    /\ RegisteredNames(agents) = <<"C", "A", "B">>
    /\ ret.exclude = {"A"}
    /\ Len(ret.value) = 2
    /\ ret.value[1].recipient = "C" /\ ret.value[2].recipient = "B"

\* the last min(limit, Len(h)) entries of h, in their order
C18_Tail(h, limit) ==
    LET k == IF limit < Len(h) THEN limit ELSE Len(h)
    IN SubSeq(h, Len(h) - k + 1, Len(h))

\* C18: for a registered agent with history h and a limit L >= 0,
\* get_message_history returns the last min(L, Len(h)) entries of h in their
\* order, so never more than L entries; for an unknown agent or one without
\* a history it returns the empty sequence.
C18_HistoryTail ==
    ret.op = "get_message_history" =>
        /\ Len(ret.value) <= ret.limit
        /\ ret.value =
              IF IsRegistered(agents, ret.agent_name)
                 /\ AgentAt(agents, ret.agent_name) \in BaseAgents
              THEN C18_Tail(history[AgentAt(agents, ret.agent_name)], ret.limit)
              ELSE <<>>

\* the topic occurs in the key, as a run of consecutive characters
C19_Occurs(topic, key) ==
    \E i \in 0..(Len(key) - Len(topic)) :
        \A j \in 1..Len(topic) : key[i + j] = topic[j]

\* the positions, in table order, of the subscriptions the topic occurs in
C19_Matching(topic) ==
    {i \in 1..Len(message_handlers) : C19_Occurs(Chars(topic), message_handlers[i][1])}

\* C19: publish_to_topic calls, once each and in table order, the handlers
\* of exactly the subscriptions whose key 'agent:topic' contains the
\* published topic as a substring, and returns one result per called
\* handler: success=false for a handler that raised, success=true for every
\* other one, the handlers after a failing one being called all the same.
C19_PublishInvokesMatching ==
    ret.op = "publish_to_topic" =>
        LET matching == C19_Matching(ret.topic) IN
        /\ Len(ret.calls) = Cardinality(matching)
        /\ Len(ret.value) = Cardinality(matching)
        /\ \A k \in 1..Len(ret.calls) :
              \E i \in matching :
                 /\ Cardinality({j \in matching : j < i}) = k - 1
                 /\ ret.calls[k] = message_handlers[i][1]
                 /\ ret.value[k].success = (message_handlers[i][2] = "h_ok")

\* a publication whose first handler raised and whose second returned, one
\* of them matching through the agent name or a longer topic, another
\* subscription not matching
C19_Witness ==
    /\ ret.op = "publish_to_topic"
    /\ Len(ret.value) = 2
    /\ ~ret.value[1].success
    /\ ret.value[2].success
    /\ Len(message_handlers) = 3
    /\ \E k \in 1..2 : \A n \in Subscribers : ret.calls[k] # TopicKey(n, ret.topic)

\* C20 (what it says of an invocation that has ended): a drain-loop
\* invocation during which no message was enqueued ends by finding the
\* queue empty, leaves the pending queue empty, and has removed the
\* messages that were queued when it began, each once and oldest first.
C20_DrainEmpties ==
    \A d \in Drainers :
        (drain[d].pc \in {"done", "raised"} /\ ~drain[d].enqueued) =>
            /\ drain[d].left = <<>>
            /\ drain[d].removed = drain[d].initial

\* the subscription key of a message: its recipient and the topic of its
\* metadata, 'default' when the metadata name no topic
C21_Key(m) ==
    Chars(m.recipient) \o <<":">> \o
    Chars(IF \E t \in Topics : <<"topic", t>> \in m.metadata
          THEN CHOOSE t \in Topics : <<"topic", t>> \in m.metadata
          ELSE "default")

\* the positions of the subscriptions under the key of m
C21_Subscribed(m) ==
    {i \in 1..Len(message_handlers) : message_handlers[i][1] = C21_Key(m)}

\* invocation d removes the oldest message in this step
C21_Removes(d) ==
    /\ message_queue # <<>>
    /\ message_queue' = Tail(message_queue)
    /\ drain'[d].removed = Append(drain[d].removed, Head(message_queue))

\* in this step the handler subscribed under the key of m is invoked by d,
\* which waits for it, and no receive capability is
C21_Handled(d, m) ==
    /\ drain'[d].pc = "handler"
    /\ \E i \in C21_Subscribed(m) : drain'[d].handler = {message_handlers[i][2]}
    /\ history' = history

\* in this step the receive capability of the registered recipient of m is
\* invoked: m joins its history, or the capability fails and ends d
C21_Received(d, m) ==
    \E i \in 1..Len(agents) :
        /\ agents[i][1] = m.recipient
        /\ IF agents[i][2] \in BaseAgents
           THEN /\ history' = [history EXCEPT ![agents[i][2]] = Append(@, m)]
                /\ drain'[d].pc = "sleep"
           ELSE /\ history' = history
                /\ drain'[d].pc = "raised"

\* C21 as stated: for each message the drain loop removes, if a
\* subscription exists under (recipient, topic of the metadata or
\* 'default') its handler is invoked and completes before the next message
\* is removed, the receive capability not being invoked; otherwise the
\* message is delivered to the recipient's receive capability.
C21_DrainDispatch ==
    [][\A d \in Drainers :
          /\ drain[d].pc = "handler" => drain'[d].removed = drain[d].removed
          /\ C21_Removes(d) =>
                LET m == Head(message_queue) IN
                IF C21_Subscribed(m) # {} THEN C21_Handled(d, m)
                ELSE C21_Received(d, m)]_vars

\* C21, amended: as stated, except that a message without a subscription
\* is delivered to the receive capability of its recipient only when the
\* recipient is registered at that moment; when it is not, the message is
\* removed and nothing is invoked for it.
C21_DrainDispatchRegistered ==
    [][\A d \in Drainers :
          /\ drain[d].pc = "handler" => drain'[d].removed = drain[d].removed
          /\ C21_Removes(d) =>
                LET m == Head(message_queue) IN
                IF C21_Subscribed(m) # {} THEN C21_Handled(d, m)
                ELSE IF \E i \in 1..Len(agents) : agents[i][1] = m.recipient
                     THEN C21_Received(d, m)
                     ELSE history' = history /\ drain'[d].pc = "sleep"]_vars

\* the second message removed carries a topic and is with the handler
\* subscribed under that topic, a handler for 'default' being subscribed too
C21_Witness ==
    /\ drain["d1"].pc = "handler"
    /\ drain["d1"].handler = {"h_ok"}
    /\ Len(drain["d1"].removed) = 2
    /\ drain["d1"].removed[2].metadata = {<<"topic", "fault">>}
    /\ Len(message_handlers) = 2

\* how many times the message occurs in the history
C27_Count(m, h) == Cardinality({i \in 1..Len(h) : h[i] = m})

\* C27: when the drain loop removes a message that send_message had
\* delivered (it is once in the history of the agent it was sent to), that
\* agent being still registered under the recipient's name and no
\* subscription existing under the message's (recipient, topic) key, the
\* receive capability is invoked for it a second time: the history holds
\* the message twice.
C27_DeliveredTwice ==
    [][\A d \in Drainers : \A b \in BaseAgents :
          LET m == Head(message_queue) IN
          (/\ C21_Removes(d)
           /\ C27_Count(m, history[b]) = 1
           /\ \E i \in 1..Len(agents) : agents[i] = <<m.recipient, b>>
           /\ C21_Subscribed(m) = {})
          => C27_Count(m, history'[b]) = 2]_vars

\* a drain loop that ran to completion and delivered a second time the
\* only message, which the send had delivered
C27_Witness ==
    /\ drain["d1"].pc = "done"
    /\ Len(drain["d1"].removed) = 1
    /\ C27_Count(drain["d1"].removed[1], history["a1"]) = 2
    /\ IsRegistered(agents, "A")

\* C31: when the recipient is registered but its receive_message raises,
\* send_message returns a result with success=false instead of raising, and
\* the message it appended before the delivery attempt stays in the pending
\* queue: the queue is the old one with that message at its end, and no
\* history changes.
C31_FailedDeliveryStaysQueued ==
    [][(ret'.op = "send_message" /\ IsRegistered(agents, ret'.recipient)
          /\ ReceiveRaises(AgentAt(agents, ret'.recipient))) =>
          /\ ret'.value.success = FALSE
          /\ ret'.value.message = "failed"
          /\ message_queue' = Append(message_queue,
                                     SentMessage(ret', ret'.recipient))
          /\ Len(message_queue') = Len(message_queue) + 1
          /\ history' = history]_vars

\* a send to C, registered as an object without receive_message, has just
\* failed and its message is the last of a queue that held one before
C31_Witness ==
    /\ ret.op = "send_message"
    /\ ret.recipient = "C"
    /\ IsRegistered(agents, "C") /\ AgentAt(agents, "C") = "a3"
    /\ ret.value.success = FALSE
    /\ Len(message_queue) >= 2
    /\ message_queue[Len(message_queue)].recipient = "C"

\* the number of a message: messages are numbered in the order they are sent
C32_Number(m) == m.content[2]

\* the invocations were interleaved at a suspension point: e removed a
\* message between two messages that d removed
C32_Interleaved(dr) ==
    \E d \in Drainers, e \in Drainers :
        /\ d # e
        /\ \E i \in 1..(Len(dr[d].removed) - 1), j \in 1..Len(dr[e].removed) :
              /\ C32_Number(dr[d].removed[i]) < C32_Number(dr[e].removed[j])
              /\ C32_Number(dr[e].removed[j]) < C32_Number(dr[d].removed[i + 1])

C32_Ended(dr, d) == dr[d].pc \in {"done", "raised"}

\* C32: when two drain-loop invocations have run interleaved at their
\* suspension points, every queued message is removed by exactly one of
\* them: no message is removed by both, and when the last of the two ends
\* no message is left in the pending queue.
C32_ExactlyOneDrainer ==
    [][(/\ \A d \in Drainers : C32_Ended(drain', d)
        /\ \E d \in Drainers : ~C32_Ended(drain, d)
        /\ C32_Interleaved(drain')) =>
          /\ \A i \in 1..Len(drain'["d1"].removed), j \in 1..Len(drain'["d2"].removed) :
                drain'["d1"].removed[i] # drain'["d2"].removed[j]
          /\ message_queue' = <<>>]_vars

\* C33: a message enqueued by send_message while the only drain-loop
\* invocation is suspended at an await is removed by that invocation before
\* it ends: the invocation does not end while the pending queue holds a
\* message.
C33_EnqueuedAtYieldDrained ==
    \A d \in Drainers :
        (/\ C32_Ended(drain, d)
         /\ drain[d].at_yield
         /\ \A e \in Drainers \ {d} : drain[e].pc = "idle") =>
            drain[d].left = <<>>

\* C34: when the drain loop removes a message whose recipient is no longer
\* registered and no subscription exists under the message's (recipient,
\* topic) key, the message leaves the queue, no history receives it, no
\* handler is invoked, the invocation goes on to its sleep without an
\* error, and no removed message is in the queue again.
C34_UnregisteredRecipientDropped ==
    [][\A d \in Drainers :
          (/\ C21_Removes(d)
           /\ ~IsRegistered(agents, Head(message_queue).recipient)
           /\ C21_Subscribed(Head(message_queue)) = {}) =>
              /\ history' = history
              /\ drain'[d].pc = "sleep"
              /\ drain'[d].handler = {}
              /\ \A e \in Drainers : \A i \in 1..Len(drain'[e].removed) :
                    ~InList(message_queue', drain'[e].removed[i])]_vars

\* a message sent to A, who received it once when it was sent, has been
\* removed after A was unregistered, nothing being subscribed: the
\* invocation is at its sleep and A's history still holds the message once
C34_Witness ==
    /\ drain["d1"].pc = "sleep"
    /\ message_handlers = <<>>
    /\ ~IsRegistered(agents, "A")
    /\ Len(drain["d1"].removed) = 1
    /\ drain["d1"].removed[1].recipient = "A"
    /\ C27_Count(drain["d1"].removed[1], history["a1"]) = 1

====
